---- MODULE Spec2Model ----
(***************************************************************************)
(* A model of or-tools/jssp_solver.py: solve_simple_jssp builds a CP-SAT   *)
(* model of a job-shop problem (one start/end/interval variable triple per *)
(* task, one NoOverlap per machine, one precedence per consecutive pair of *)
(* tasks of a job, a makespan variable tied to the last task of every job  *)
(* by a max-equality), minimises the makespan and prints the schedule.     *)
(*                                                                         *)
(* jobs_data is a sequence of jobs, a job a sequence of tasks, a task the  *)
(* pair <<machine_id, processing_time>>.  TLA+ sequences start at 1 where  *)
(* Python's start at 0: job_id and task_index keep Python's values, so job *)
(* job_id is jobs[job_id + 1], and Python's task[0] and task[1] are        *)
(* task[1] and task[2].                                                    *)
(***************************************************************************)
EXTENDS Integers, Sequences, FiniteSets, TLC

VARIABLES jobs_data, pc, num_jobs, num_machines, horizon, all_tasks,
          machine_to_intervals, model, status, solution, objective_value,
          assigned_jobs, output, error

vars == <<jobs_data, pc, num_jobs, num_machines, horizon, all_tasks,
          machine_to_intervals, model, status, solution, objective_value,
          assigned_jobs, output, error>>

---------------------------------------------------------------------------
(* Bounds of the input space.                                              *)

MaxTasks == 2
MaxMachine == 1
MaxDur == 2

---------------------------------------------------------------------------
(* Helpers.                                                                *)

Max(S) == CHOOSE x \in S : \A y \in S : y <= x
Min(S) == CHOOSE x \in S : \A y \in S : x <= y

RECURSIVE SumSeq(_)
SumSeq(s) == IF s = <<>> THEN 0 ELSE Head(s) + SumSeq(Tail(s))

RECURSIVE Concat(_)
Concat(ss) == IF ss = <<>> THEN <<>> ELSE Head(ss) \o Concat(Tail(ss))

Range(s) == {s[i] : i \in DOMAIN s}

NONE == <<>>

---------------------------------------------------------------------------
(* The input: jobs_data.  The program's own instance is ScenarioA; the     *)
(* other instances are every jobs_data within the bounds: Problems are the *)
(* well-formed ones (at least one job, no empty job, every processing time *)
(* positive), MalformedProblems those with an empty job or a processing    *)
(* time of 0.                                                              *)

ScenarioA ==
    << << <<0, 3>>, <<1, 2>>, <<2, 2>> >>,
       << <<0, 2>>, <<2, 1>>, <<1, 4>> >>,
       << <<1, 4>>, <<2, 3>> >> >>

Tasks == (0 .. MaxMachine) \X (0 .. MaxDur)

JobsUpTo(n) == UNION {[1 .. k -> Tasks] : k \in 0 .. n}

(* A jobs_data of size at most budget: the size is its number of tasks,    *)
(* an empty job counting as one.                                           *)
JobSize(job) == IF job = <<>> THEN 1 ELSE Len(job)

RECURSIVE ProblemsWithin(_)
ProblemsWithin(budget) ==
    {<<>>} \cup
    UNION {{<<job>> \o rest : rest \in ProblemsWithin(budget - JobSize(job))} :
           job \in {j \in JobsUpTo(budget) : JobSize(j) <= budget}}

AllProblems == ProblemsWithin(MaxTasks) \ {<<>>}

ValidProblem(jobs) ==
    /\ Len(jobs) >= 1
    /\ \A j \in 1 .. Len(jobs) :
           /\ Len(jobs[j]) >= 1
           /\ \A t \in 1 .. Len(jobs[j]) : jobs[j][t][1] >= 0 /\ jobs[j][t][2] > 0

Problems == {p \in AllProblems : ValidProblem(p)}

MalformedProblems == AllProblems \ Problems

machine_id_of(task) == task[1]
duration_of(task) == task[2]

Job(jobs, job_id) == jobs[job_id + 1]
Task(jobs, job_id, task_index) == jobs[job_id + 1][task_index + 1]
TaskIndices(jobs, job_id) == 0 .. Len(Job(jobs, job_id)) - 1
TaskKeys(jobs) ==
    UNION {{<<job_id, task_index>> : task_index \in TaskIndices(jobs, job_id)} :
           job_id \in 0 .. Len(jobs) - 1}

(* The (job_id, task_index) pairs in the order of the nested loops          *)
(* `for job_id in all_jobs: for task_index, ... in enumerate(jobs_data[job_id])`. *)
KeySeq(jobs) ==
    Concat([j \in 1 .. Len(jobs) |-> [t \in 1 .. Len(jobs[j]) |-> <<j - 1, t - 1>>]])

---------------------------------------------------------------------------
(* Lines 20-31: num_jobs, max_machine_id, num_machines.                    *)

max_machine_id(jobs) ==
    Max({0} \cup {machine_id_of(Task(jobs, k[1], k[2])) : k \in TaskKeys(jobs)})

NumMachines_NoPlusOne(jobs) == max_machine_id(jobs)

NumMachines(jobs) == max_machine_id(jobs) + 1

(* Line 48: horizon = sum(task[1] for job in jobs_data for task in job).   *)
Horizon_Swapped(jobs) ==
    LET ks == KeySeq(jobs)
    IN  SumSeq([i \in 1 .. Len(ks) |-> machine_id_of(Task(jobs, ks[i][1], ks[i][2]))])

Horizon(jobs) ==
    LET ks == KeySeq(jobs)
    IN  SumSeq([i \in 1 .. Len(ks) |-> duration_of(Task(jobs, ks[i][1], ks[i][2]))])

---------------------------------------------------------------------------
(* The CpModel object: its integer variables (name -> <<lb, ub>>, and the  *)
(* names in creation order), its interval variables, its constraints and   *)
(* its objective.                                                          *)

EmptyModel ==
    [vars |-> <<>>, var_names |-> <<>>, intervals |-> <<>>, no_overlap |-> <<>>,
     linear |-> <<>>, max_equality |-> <<>>, objective |-> NONE]

StartVar(job_id, task_index) == <<"start", job_id, task_index>>
EndVar(job_id, task_index) == <<"end", job_id, task_index>>
IntervalVar(job_id, task_index) == <<"interval", job_id, task_index>>
MakespanVar == <<"makespan", 0, 0>>

NewIntVar(m, lb, ub, name) ==
    [m EXCEPT !.vars = @ @@ (name :> <<lb, ub>>), !.var_names = Append(@, name)]

(* NewIntervalVar(start, size, end, name): the constraint start + size = end. *)
NewIntervalVar_Swapped(m, start, size, end, name) ==
    [m EXCEPT !.intervals = @ @@ (name :> [start |-> end, size |-> size, end |-> start])]

NewIntervalVar(m, start, size, end, name) ==
    [m EXCEPT !.intervals = @ @@ (name :> [start |-> start, size |-> size, end |-> end])]

AddNoOverlap(m, intervals) == [m EXCEPT !.no_overlap = Append(@, intervals)]

(* model.Add(a >= b) *)
AddGreaterOrEqual(m, a, b) == [m EXCEPT !.linear = Append(@, <<a, b>>)]

AddMaxEquality(m, target, exprs) ==
    [m EXCEPT !.max_equality = Append(@, [target |-> target, exprs |-> exprs])]

Minimize(m, v) == [m EXCEPT !.objective = v]

---------------------------------------------------------------------------
(* Lines 62-79: one start, end and interval variable per task; the interval *)
(* is appended to its machine's list (a defaultdict(list)).                *)

DomainUpper_Tight(h) == h - 1

DomainUpper(h) == h

IntervalSize_Swapped(task) == machine_id_of(task)

IntervalSize(task) == duration_of(task)

CreateTask(jobs, h, st, key) ==
    LET task == Task(jobs, key[1], key[2])
        start_var == StartVar(key[1], key[2])
        end_var == EndVar(key[1], key[2])
        interval_var == IntervalVar(key[1], key[2])
        m1 == NewIntVar(st.model, 0, DomainUpper(h), start_var)
        m2 == NewIntVar(m1, 0, DomainUpper(h), end_var)
        m3 == NewIntervalVar(m2, start_var, IntervalSize(task), end_var, interval_var)
        mid == machine_id_of(task)
        old == IF mid \in DOMAIN st.machine_to_intervals
               THEN st.machine_to_intervals[mid] ELSE <<>>
    IN  [model |-> m3,
         all_tasks |-> st.all_tasks @@ (key :> <<start_var, end_var, interval_var>>),
         machine_to_intervals |->
             [x \in DOMAIN st.machine_to_intervals \cup {mid} |->
                 IF x = mid THEN Append(old, interval_var) ELSE st.machine_to_intervals[x]]]

RECURSIVE CreateTasks(_, _, _, _)
CreateTasks(jobs, h, st, keys) ==
    IF keys = <<>> THEN st
    ELSE CreateTasks(jobs, h, CreateTask(jobs, h, st, Head(keys)), Tail(keys))

CreateAllTasks(jobs, h) ==
    CreateTasks(jobs, h,
                [model |-> EmptyModel, all_tasks |-> <<>>, machine_to_intervals |-> <<>>],
                KeySeq(jobs))

---------------------------------------------------------------------------
(* Lines 86-87: one NoOverlap per machine of all_machines.  Reading        *)
(* machine_to_intervals[machine_id] of a machine no task uses creates its  *)
(* empty list.                                                             *)

(* all_machines = range(num_machines) *)
all_machines_Short(n_machines) == [i \in 1 .. n_machines - 1 |-> i - 1]

all_machines(n_machines) == [i \in 1 .. n_machines |-> i - 1]

MachineList(m2i, machine_id) == IF machine_id \in DOMAIN m2i THEN m2i[machine_id] ELSE <<>>

RECURSIVE AddNoOverlaps(_, _, _)
AddNoOverlaps(m, m2i, machines) ==
    IF machines = <<>> THEN m
    ELSE AddNoOverlaps(AddNoOverlap(m, MachineList(m2i, Head(machines))), m2i, Tail(machines))

TouchMachines(m2i, machines) ==
    [x \in DOMAIN m2i \cup Range(machines) |-> MachineList(m2i, x)]

---------------------------------------------------------------------------
(* Lines 93-101: next_task_start >= prev_task_end for task_index in        *)
(* range(len(jobs_data[job_id]) - 1).                                      *)

PrecedencePairs_Short(jobs) ==
    LET ks == KeySeq(jobs)
    IN  SelectSeq(ks, LAMBDA k : k[2] < Len(Job(jobs, k[1])) - 2)

PrecedencePairs(jobs) ==
    LET ks == KeySeq(jobs)
    IN  SelectSeq(ks, LAMBDA k : k[2] < Len(Job(jobs, k[1])) - 1)

RECURSIVE AddPrecedences(_, _, _)
AddPrecedences(m, tasks, keys) ==
    IF keys = <<>> THEN m
    ELSE LET job_id == Head(keys)[1]
             task_index == Head(keys)[2]
             prev_task_end == tasks[<<job_id, task_index>>][2]
             next_task_start == tasks[<<job_id, task_index + 1>>][1]
         IN  AddPrecedences(AddGreaterOrEqual(m, next_task_start, prev_task_end),
                            tasks, Tail(keys))

---------------------------------------------------------------------------
(* Lines 111-126: the makespan variable, the end of the last task of every *)
(* job, the max-equality and the objective.  all_tasks[(job_id, -1)] of an *)
(* empty job raises KeyError.                                              *)

last_task_index_First(jobs, job_id) == 0

last_task_index(jobs, job_id) == Len(Job(jobs, job_id)) - 1

HasEmptyJob(jobs) == \E j \in 1 .. Len(jobs) : Len(jobs[j]) = 0

last_task_end_times_FirstJobOnly(jobs, tasks) ==
    <<tasks[<<0, Len(Job(jobs, 0)) - 1>>][2]>>

last_task_end_times(jobs, tasks) ==
    [j \in 1 .. Len(jobs) |-> tasks[<<j - 1, last_task_index(jobs, j - 1)>>][2]]

DefineMakespan(m, jobs, tasks, h) ==
    LET m1 == NewIntVar(m, 0, DomainUpper(h), MakespanVar)
    IN  IF HasEmptyJob(jobs) THEN m1
        ELSE Minimize(AddMaxEquality(m1, MakespanVar, last_task_end_times(jobs, tasks)),
                      MakespanVar)

---------------------------------------------------------------------------
(* Line 136: solver.Solve(model), by CP-SAT's contract.  An assignment     *)
(* gives every integer variable a value of its domain such that every      *)
(* interval has start + size = end (size >= 0), the intervals of every     *)
(* NoOverlap can be put in a sequence with end_i <= start_i+1 (pairwise:   *)
(* one ends no later than the other starts), every linear constraint holds *)
(* and every max-equality target is the maximum of its expressions.  With  *)
(* no time limit set (line 133 is commented out) the solver returns        *)
(* OPTIMAL with an assignment of least objective value, or INFEASIBLE when *)
(* no assignment exists.                                                   *)
(*                                                                         *)
(* ConsistentAt is the partial check used while enumerating: when v gets  *)
(* its value, the constraints that read v are tested, each as far as the   *)
(* variables it reads have values.                                         *)

Has(asg, v) == v \in DOMAIN asg

IntervalOk(m, asg, name) ==
    LET i == m.intervals[name]
    IN  /\ i.size >= 0
        /\ (Has(asg, i.start) /\ Has(asg, i.end)) => asg[i.start] + i.size = asg[i.end]

Reads(m, name, v) == m.intervals[name].start = v \/ m.intervals[name].end = v

Disjoint(m, asg, a, b) ==
    LET ia == m.intervals[a]
        ib == m.intervals[b]
    IN  (Has(asg, ia.start) /\ Has(asg, ia.end) /\ Has(asg, ib.start) /\ Has(asg, ib.end))
            => (asg[ia.end] <= asg[ib.start] \/ asg[ib.end] <= asg[ia.start])

NoOverlapOk(m, asg, intervals, v) ==
    \A a \in 1 .. Len(intervals) :
        Reads(m, intervals[a], v) =>
            \A b \in 1 .. Len(intervals) : a # b => Disjoint(m, asg, intervals[a], intervals[b])

LinearOk(asg, c) == (Has(asg, c[1]) /\ Has(asg, c[2])) => asg[c[1]] >= asg[c[2]]

MaxEqualityOk(asg, c) ==
    Has(asg, c.target) =>
        /\ \A i \in 1 .. Len(c.exprs) : Has(asg, c.exprs[i]) => asg[c.exprs[i]] <= asg[c.target]
        /\ (\A i \in 1 .. Len(c.exprs) : Has(asg, c.exprs[i]))
               => \E i \in 1 .. Len(c.exprs) : asg[c.exprs[i]] = asg[c.target]

ConsistentAt(m, asg, v) ==
    /\ \A name \in DOMAIN m.intervals : Reads(m, name, v) => IntervalOk(m, asg, name)
    /\ \A i \in 1 .. Len(m.no_overlap) : NoOverlapOk(m, asg, m.no_overlap[i], v)
    /\ \A i \in 1 .. Len(m.linear) :
           (m.linear[i][1] = v \/ m.linear[i][2] = v) => LinearOk(asg, m.linear[i])
    /\ \A i \in 1 .. Len(m.max_equality) :
           (m.max_equality[i].target = v \/ v \in Range(m.max_equality[i].exprs))
               => MaxEqualityOk(asg, m.max_equality[i])

(* The order in which the enumeration gives values: the variables other    *)
(* than the objective, last created first.                                 *)
RECURSIVE Reverse(_)
Reverse(s) == IF s = <<>> THEN <<>> ELSE Append(Reverse(Tail(s)), Head(s))

SearchOrder(m) == Reverse(SelectSeq(m.var_names, LAMBDA v : v # m.objective))

RECURSIVE Extend(_, _, _)
Extend(m, order, asg) ==
    IF order = <<>> THEN {asg}
    ELSE LET v == Head(order)
             values == {x \in m.vars[v][1] .. m.vars[v][2] : ConsistentAt(m, asg @@ (v :> x), v)}
         IN  UNION {Extend(m, Tail(order), asg @@ (v :> x)) : x \in values}

(* Every assignment of the model whose objective has value k.              *)
Solutions(m, k) ==
    LET asg == (m.objective :> k)
    IN  IF ConsistentAt(m, asg, m.objective) THEN Extend(m, SearchOrder(m), asg) ELSE {}

RECURSIVE SearchFrom(_, _, _)
SearchFrom(m, k, ub) ==
    IF k > ub THEN [status |-> "INFEASIBLE", solutions |-> {}, objective |-> -1]
    ELSE LET sols == Solutions(m, k)
         IN  IF sols # {} THEN [status |-> "OPTIMAL", solutions |-> sols, objective |-> k]
             ELSE SearchFrom(m, k + 1, ub)

CpSolve(m) == SearchFrom(m, m.vars[m.objective][1], m.vars[m.objective][2])

---------------------------------------------------------------------------
(* Lines 152-177: the tasks of every machine with their solved start and   *)
(* end, in loop order, then sorted by start (list.sort is stable).         *)

AssignedRecord(jobs, tasks, sol, key) ==
    [job |-> key[1], task |-> key[2],
     start |-> sol[tasks[key][1]], end |-> sol[tasks[key][2]],
     duration |-> duration_of(Task(jobs, key[1], key[2]))]

CollectAssigned(jobs, tasks, sol) ==
    LET ks == KeySeq(jobs)
        used == {machine_id_of(Task(jobs, k[1], k[2])) : k \in TaskKeys(jobs)}
    IN  [mid \in used |->
            LET mine == SelectSeq(ks, LAMBDA k : machine_id_of(Task(jobs, k[1], k[2])) = mid)
            IN  [i \in 1 .. Len(mine) |-> AssignedRecord(jobs, tasks, sol, mine[i])]]

InsertByStart(s, x) ==
    LET n == Cardinality({i \in 1 .. Len(s) : s[i].start <= x.start})
    IN  SubSeq(s, 1, n) \o <<x>> \o SubSeq(s, n + 1, Len(s))

RECURSIVE SortByStart(_)
SortByStart(s) ==
    IF s = <<>> THEN <<>>
    ELSE InsertByStart(SortByStart(SubSeq(s, 1, Len(s) - 1)), s[Len(s)])

SortAssigned(assigned, machines) ==
    [mid \in DOMAIN assigned \cup Range(machines) |->
        IF mid \in Range(machines)
        THEN SortByStart(MachineList(assigned, mid))
        ELSE assigned[mid]]

PrintedLines(assigned, machines) ==
    [i \in 1 .. Len(machines) |-> <<machines[i], SortAssigned(assigned, machines)[machines[i]]>>]

---------------------------------------------------------------------------
(* The program, section by section.                                        *)

InitRest ==
    /\ pc = "count_machines"
    /\ num_jobs = 0
    /\ num_machines = 0
    /\ horizon = 0
    /\ all_tasks = <<>>
    /\ machine_to_intervals = <<>>
    /\ model = EmptyModel
    /\ status = "NOT_SOLVED"
    /\ solution = <<>>
    /\ objective_value = -1
    /\ assigned_jobs = <<>>
    /\ output = <<>>
    /\ error = "none"

Init == jobs_data \in Problems /\ InitRest

InitMalformed == jobs_data \in MalformedProblems /\ InitRest

InitA == jobs_data = ScenarioA /\ InitRest

(* Lines 20-31 *)
CountMachines ==
    /\ pc = "count_machines"
    /\ num_jobs' = Len(jobs_data)
    /\ num_machines' = NumMachines(jobs_data)
    /\ pc' = "create_variables"
    /\ UNCHANGED <<jobs_data, horizon, all_tasks, machine_to_intervals, model, status,
                   solution, objective_value, assigned_jobs, output, error>>

(* Lines 42-79 *)
CreateVariables ==
    /\ pc = "create_variables"
    /\ horizon' = Horizon(jobs_data)
    /\ LET st == CreateAllTasks(jobs_data, Horizon(jobs_data))
       IN  /\ model' = st.model
           /\ all_tasks' = st.all_tasks
           /\ machine_to_intervals' = st.machine_to_intervals
    /\ pc' = "no_overlap"
    /\ UNCHANGED <<jobs_data, num_jobs, num_machines, status, solution, objective_value,
                   assigned_jobs, output, error>>

(* Lines 86-87 *)
AddNoOverlapConstraints ==
    /\ pc = "no_overlap"
    /\ model' = AddNoOverlaps(model, machine_to_intervals, all_machines(num_machines))
    /\ machine_to_intervals' = TouchMachines(machine_to_intervals, all_machines(num_machines))
    /\ pc' = "precedence"
    /\ UNCHANGED <<jobs_data, num_jobs, num_machines, horizon, all_tasks, status, solution,
                   objective_value, assigned_jobs, output, error>>

(* Lines 93-101 *)
AddPrecedenceConstraints ==
    /\ pc = "precedence"
    /\ model' = AddPrecedences(model, all_tasks, PrecedencePairs(jobs_data))
    /\ pc' = "objective"
    /\ UNCHANGED <<jobs_data, num_jobs, num_machines, horizon, all_tasks,
                   machine_to_intervals, status, solution, objective_value, assigned_jobs,
                   output, error>>

(* Lines 111-126 *)
DefineObjective ==
    /\ pc = "objective"
    /\ model' = DefineMakespan(model, jobs_data, all_tasks, horizon)
    /\ IF HasEmptyJob(jobs_data)
       THEN pc' = "crashed" /\ error' = "KeyError"
       ELSE pc' = "solve" /\ error' = error
    /\ UNCHANGED <<jobs_data, num_jobs, num_machines, horizon, all_tasks,
                   machine_to_intervals, status, solution, objective_value, assigned_jobs,
                   output>>

(* Lines 131-136 *)
Solve ==
    /\ pc = "solve"
    /\ \E r \in {CpSolve(model)} :
           /\ status' = r.status
           /\ IF r.status = "OPTIMAL"
              THEN \E sol \in r.solutions :
                       /\ solution' = sol
                       /\ objective_value' = sol[model.objective]
              ELSE solution' = solution /\ objective_value' = objective_value
    /\ pc' = "report"
    /\ UNCHANGED <<jobs_data, num_jobs, num_machines, horizon, all_tasks,
                   machine_to_intervals, model, assigned_jobs, output, error>>

(* Lines 141-149 and 179-185 *)
Report ==
    /\ pc = "report"
    /\ IF status \in {"OPTIMAL", "FEASIBLE"}
       THEN /\ output' = <<"Solution Found", status, objective_value>>
            /\ pc' = "collect"
       ELSE IF status = "INFEASIBLE"
       THEN /\ output' = <<"No solution found. The problem is infeasible.">>
            /\ pc' = "done"
       ELSE /\ output' = <<"Solver stopped before finding a solution.", status>>
            /\ pc' = "done"
    /\ UNCHANGED <<jobs_data, num_jobs, num_machines, horizon, all_tasks,
                   machine_to_intervals, model, status, solution, objective_value,
                   assigned_jobs, error>>

(* Lines 152-165 *)
Collect ==
    /\ pc = "collect"
    /\ assigned_jobs' = CollectAssigned(jobs_data, all_tasks, solution)
    /\ pc' = "print"
    /\ UNCHANGED <<jobs_data, num_jobs, num_machines, horizon, all_tasks,
                   machine_to_intervals, model, status, solution, objective_value, output,
                   error>>

(* Lines 168-177 *)
PrintSchedule ==
    /\ pc = "print"
    /\ assigned_jobs' = SortAssigned(assigned_jobs, all_machines(num_machines))
    /\ output' = output \o PrintedLines(assigned_jobs, all_machines(num_machines))
    /\ pc' = "done"
    /\ UNCHANGED <<jobs_data, num_jobs, num_machines, horizon, all_tasks,
                   machine_to_intervals, model, status, solution, objective_value, error>>

Next ==
    \/ CountMachines
    \/ CreateVariables
    \/ AddNoOverlapConstraints
    \/ AddPrecedenceConstraints
    \/ DefineObjective
    \/ Solve
    \/ Report
    \/ Collect
    \/ PrintSchedule

Spec == Init /\ [][Next]_vars

SpecA == InitA /\ [][Next]_vars

SpecMalformed == InitMalformed /\ [][Next]_vars

---------------------------------------------------------------------------
(* The whole construction for a given jobs_data (lines 20-126), and the    *)
(* solver's answer for it.                                                 *)

BuildModel(jobs) ==
    LET h == Horizon(jobs)
        st == CreateAllTasks(jobs, h)
        m1 == AddNoOverlaps(st.model, st.machine_to_intervals, all_machines(NumMachines(jobs)))
        m2 == AddPrecedences(m1, st.all_tasks, PrecedencePairs(jobs))
    IN  DefineMakespan(m2, jobs, st.all_tasks, h)

SolveProblem(jobs) == CpSolve(BuildModel(jobs))

---------------------------------------------------------------------------
(* The job-shop problem itself, stated on jobs_data alone: what a schedule *)
(* is, when it is feasible, its makespan.  The properties below compare    *)
(* the program with these.                                                 *)

RefDuration(jobs, key) == jobs[key[1] + 1][key[2] + 1][2]
RefMachine(jobs, key) == jobs[key[1] + 1][key[2] + 1][1]
RefKeys(jobs) ==
    UNION {{<<j - 1, t - 1>> : t \in 1 .. Len(jobs[j])} : j \in 1 .. Len(jobs)}
HasNext(jobs, key) == key[2] + 2 <= Len(jobs[key[1] + 1])
NextKey(key) == <<key[1], key[2] + 1>>

RECURSIVE RefSum(_, _)
RefSum(jobs, keys) ==
    IF keys = {} THEN 0
    ELSE LET key == CHOOSE k \in keys : TRUE
         IN  RefDuration(jobs, key) + RefSum(jobs, keys \ {key})

RefHorizon(jobs) == RefSum(jobs, RefKeys(jobs))

RefEnd(jobs, s, key) == s[key] + RefDuration(jobs, key)

(* The pairs (task, next task of the same job), and the pairs of distinct  *)
(* tasks of the same machine.                                              *)
RefChain(jobs) == {<<key, NextKey(key)>> : key \in {k \in RefKeys(jobs) : HasNext(jobs, k)}}

RefClash(jobs) ==
    {c \in RefKeys(jobs) \X RefKeys(jobs) :
        c[1] # c[2] /\ RefMachine(jobs, c[1]) = RefMachine(jobs, c[2])}

PrecedenceOn(chain, jobs, s) == \A c \in chain : RefEnd(jobs, s, c[1]) <= s[c[2]]

NoOverlapOn(clash, jobs, s) ==
    \A c \in clash : RefEnd(jobs, s, c[1]) <= s[c[2]] \/ RefEnd(jobs, s, c[2]) <= s[c[1]]

RefPrecedence(jobs, s) == PrecedenceOn(RefChain(jobs), jobs, s)

RefNoOverlap(jobs, s) == NoOverlapOn(RefClash(jobs), jobs, s)

RefMakespan(jobs, s) ==
    Max({RefEnd(jobs, s, <<j - 1, Len(jobs[j]) - 1>>) : j \in 1 .. Len(jobs)})

(* The feasible schedules with every start in 0 .. max_start. *)
RefFeasible(jobs, max_start) ==
    LET chain == RefChain(jobs)
        clash == RefClash(jobs)
    IN  {s \in [RefKeys(jobs) -> 0 .. max_start] :
            PrecedenceOn(chain, jobs, s) /\ NoOverlapOn(clash, jobs, s)}

(* The least makespan of a feasible schedule; starts beyond the sum of all *)
(* durations are never needed, ends beyond it are allowed.                 *)
RefOptimum(jobs) ==
    Min({RefMakespan(jobs, s) : s \in RefFeasible(jobs, RefHorizon(jobs))})

(* The schedule that runs the tasks one after another, in the order of    *)
(* jobs_data.                                                              *)
RefSerial(jobs) ==
    [key \in RefKeys(jobs) |->
        RefSum(jobs, {k \in RefKeys(jobs) : k[1] < key[1] \/ (k[1] = key[1] /\ k[2] < key[2])})]

(* RefOptimum and the objective of the program's answer (-1 when the      *)
(* solver reports INFEASIBLE), tabulated for the well-formed jobs_data      *)
(* within the bounds.                                                      *)
RefOptimumOf == [p \in Problems |-> RefOptimum(p)]

SolvedOf == [p \in Problems |-> SolveProblem(p).objective]

(* The run has ended with a schedule (line 141), and the schedule the      *)
(* program read back from the solver (lines 156-157).                      *)
Returned == pc = "done" /\ status \in {"OPTIMAL", "FEASIBLE"}
start_time(key) == solution[all_tasks[key][1]]
end_time(key) == solution[all_tasks[key][2]]
ReturnedSchedule == [key \in RefKeys(jobs_data) |-> start_time(key)]
Solved == pc \in {"report", "collect", "print", "done"}

---------------------------------------------------------------------------
(* C1: in every returned schedule (status OPTIMAL or FEASIBLE), every task *)
(* of a job ends no later than the next task of the same job starts.       *)
C1_JobPrecedence ==
    Returned =>
        \A key \in RefKeys(jobs_data) :
            HasNext(jobs_data, key) => end_time(key) <= start_time(NextKey(key))

C1_Witness ==
    /\ Returned
    /\ \E key \in RefKeys(jobs_data) :
           /\ HasNext(jobs_data, key)
           /\ RefDuration(jobs_data, key) > 0
           /\ end_time(key) <= start_time(NextKey(key))

(* C2: in every returned schedule, two distinct tasks of the same machine  *)
(* never overlap: one ends no later than the other starts.                 *)
C2_MachineNoOverlap ==
    Returned =>
        \A a, b \in RefKeys(jobs_data) :
            (a # b /\ RefMachine(jobs_data, a) = RefMachine(jobs_data, b))
                => (end_time(a) <= start_time(b) \/ end_time(b) <= start_time(a))

C2_Witness ==
    /\ Returned
    /\ \E a, b \in RefKeys(jobs_data) :
           /\ a # b /\ a[1] # b[1]
           /\ RefMachine(jobs_data, a) = RefMachine(jobs_data, b)
           /\ RefDuration(jobs_data, a) > 0 /\ RefDuration(jobs_data, b) > 0
           /\ end_time(a) <= start_time(b)

(* C3: when the run ends with status OPTIMAL, the reported makespan is the *)
(* least makespan of all schedules that satisfy job precedence and         *)
(* per-machine non-overlap: the returned schedule is feasible and reaches  *)
(* it, and no feasible schedule has a smaller one.                         *)
C3_OptimalIsMinimum ==
    (pc = "done" /\ status = "OPTIMAL") =>
        /\ RefPrecedence(jobs_data, ReturnedSchedule)
        /\ RefNoOverlap(jobs_data, ReturnedSchedule)
        /\ RefMakespan(jobs_data, ReturnedSchedule) = objective_value
        /\ objective_value = RefOptimumOf[jobs_data]

C3_Witness ==
    /\ pc = "done" /\ status = "OPTIMAL"
    /\ Len(jobs_data) = 2
    /\ \E s \in RefFeasible(jobs_data, RefHorizon(jobs_data)) :
           RefMakespan(jobs_data, s) > objective_value
    /\ objective_value > Max({RefDuration(jobs_data, key) : key \in RefKeys(jobs_data)})

(* C4: the reported makespan of a returned schedule is the largest end of  *)
(* the last task of a job, read from the returned times, and so no task    *)
(* ends after it.                                                          *)
C4_MakespanIsMaxLastEnd ==
    Returned =>
        /\ objective_value =
               Max({end_time(<<j - 1, Len(jobs_data[j]) - 1>>) : j \in 1 .. Len(jobs_data)})
        /\ \A key \in RefKeys(jobs_data) : end_time(key) <= objective_value

C4_Witness ==
    /\ Returned
    /\ \E i, j \in 1 .. Len(jobs_data) :
           end_time(<<i - 1, Len(jobs_data[i]) - 1>>) < end_time(<<j - 1, Len(jobs_data[j]) - 1>>)
    /\ objective_value > 0

(* C5: for the built-in instance (Scenario A) the solver reports OPTIMAL   *)
(* with makespan exactly 11, and the returned schedule is a feasible       *)
(* schedule of makespan 11.                                                *)
C5_ScenarioAOptimum ==
    (jobs_data = ScenarioA /\ Solved) =>
        /\ status = "OPTIMAL"
        /\ objective_value = 11
        /\ RefPrecedence(jobs_data, ReturnedSchedule)
        /\ RefNoOverlap(jobs_data, ReturnedSchedule)
        /\ RefMakespan(jobs_data, ReturnedSchedule) = 11

C5_Witness == jobs_data = ScenarioA /\ pc = "done" /\ status = "OPTIMAL" /\ objective_value = 11

(* C6: a malformed jobs_data (an empty job, a duration <= 0) is rejected   *)
(* with InvalidProblem before any variable is created: no variable, no     *)
(* solver status, no schedule, and the run ends with InvalidProblem.       *)
C6_InvalidProblemRejected ==
    ~ValidProblem(jobs_data) =>
        /\ model.vars = <<>>
        /\ status = "NOT_SOLVED"
        /\ pc \in {"done", "crashed"} => error = "InvalidProblem"

(* The machine ids renumbered 0, 1, ... in their order, unused ones dropped. *)
UsedMachines(jobs) == {RefMachine(jobs, key) : key \in RefKeys(jobs)}

Compacted(jobs) ==
    [j \in 1 .. Len(jobs) |->
        [t \in 1 .. Len(jobs[j]) |->
            <<Cardinality({u \in UsedMachines(jobs) : u < jobs[j][t][1]}), jobs[j][t][2]>>]]

(* C7: num_machines is 1 + the largest machine_id a task names, and a      *)
(* problem with a machine index no task uses is solved, with the optimum   *)
(* of the same problem with its machine ids compacted.                     *)
C7_MachinesInferred ==
    /\ (pc # "count_machines" /\ RefKeys(jobs_data) # {})
           => num_machines = 1 + Max(UsedMachines(jobs_data))
    /\ (pc = "done" /\ ValidProblem(jobs_data))
           => /\ status = "OPTIMAL"
              /\ objective_value = RefOptimumOf[Compacted(jobs_data)]

C7_Witness ==
    /\ pc = "done" /\ status = "OPTIMAL" /\ ValidProblem(jobs_data)
    /\ \E mid \in 0 .. num_machines - 1 : mid \notin UsedMachines(jobs_data)
    /\ Compacted(jobs_data) # jobs_data
    /\ machine_to_intervals[0] = <<>>

(* The well-formed jobs_data obtained by making one task shorter. *)
Shortened(jobs) ==
    UNION {{[jobs EXCEPT ![key[1] + 1][key[2] + 1] = <<@[1], @[2] - d>>] :
               d \in 1 .. RefDuration(jobs, key) - 1} : key \in RefKeys(jobs)}

(* C8: making one task longer, all else unchanged, never makes the optimal *)
(* makespan smaller: a well-formed jobs_data is solved to optimality, and  *)
(* so is every jobs_data with one task shorter, with an optimum no larger. *)
C8_Monotone ==
    (pc = "done" /\ ValidProblem(jobs_data)) =>
        /\ status = "OPTIMAL"
        /\ \A shorter \in Shortened(jobs_data) :
               0 <= SolvedOf[shorter] /\ SolvedOf[shorter] <= objective_value

C8_Witness ==
    /\ pc = "done" /\ status = "OPTIMAL" /\ ValidProblem(jobs_data)
    /\ Len(jobs_data) = 2
    /\ \E shorter \in Shortened(jobs_data) : SolvedOf[shorter] = objective_value

(* C9: every task's start and end variable has domain [0, horizon], with   *)
(* horizon the sum of all durations, its interval has the task's input     *)
(* duration, and in every returned schedule end = start + duration with    *)
(* 0 <= start <= horizon - duration and end <= horizon.                    *)
C9_IntervalAndDomain ==
    /\ pc = "solve" =>
           /\ horizon = RefHorizon(jobs_data)
           /\ \A key \in RefKeys(jobs_data) :
                  /\ model.vars[all_tasks[key][1]] = <<0, horizon>>
                  /\ model.vars[all_tasks[key][2]] = <<0, horizon>>
                  /\ model.intervals[all_tasks[key][3]] =
                         [start |-> all_tasks[key][1], size |-> RefDuration(jobs_data, key),
                          end |-> all_tasks[key][2]]
    /\ Returned =>
           \A key \in RefKeys(jobs_data) :
               /\ end_time(key) = start_time(key) + RefDuration(jobs_data, key)
               /\ 0 <= start_time(key)
               /\ start_time(key) <= RefHorizon(jobs_data) - RefDuration(jobs_data, key)
               /\ end_time(key) <= RefHorizon(jobs_data)

C9_Witness ==
    /\ Returned
    /\ \E key \in RefKeys(jobs_data) :
           /\ start_time(key) > 0
           /\ end_time(key) = RefHorizon(jobs_data)
           /\ RefDuration(jobs_data, key) > 0

(* C10: the horizon is a safe bound: a well-formed problem has a feasible  *)
(* schedule with every end <= horizon (the tasks one after another), the   *)
(* solver reports OPTIMAL and never INFEASIBLE for it, and no feasible     *)
(* schedule, ends beyond the horizon allowed, beats the reported optimum.  *)
C10_HorizonSafe ==
    (pc = "done" /\ ValidProblem(jobs_data)) =>
        /\ RefPrecedence(jobs_data, RefSerial(jobs_data))
        /\ RefNoOverlap(jobs_data, RefSerial(jobs_data))
        /\ \A key \in RefKeys(jobs_data) :
               RefEnd(jobs_data, RefSerial(jobs_data), key) <= RefHorizon(jobs_data)
        /\ status = "OPTIMAL"
        /\ objective_value <= RefHorizon(jobs_data)
        /\ objective_value = RefOptimumOf[jobs_data]

C10_Witness ==
    /\ pc = "done" /\ ValidProblem(jobs_data) /\ status = "OPTIMAL"
    /\ objective_value = horizon
    /\ Len(jobs_data) = 2

====
